---- MODULE Spec2Model ----
(***************************************************************************)
(* Model of pydantic_partial/partial.py: create_partial_model (the         *)
(* derivation engine behind functools.lru_cache) and                       *)
(* PartialModelMixin.as_partial.                                           *)
(*                                                                         *)
(* A selector string is modelled by its split at the dots, a non-empty     *)
(* sequence of segments: "child.name" is <<"child", "name">>.  Field names *)
(* hold no dot, so  s.startswith(f + ".")  is  Len(s) > 1 /\ s[1] = f,     *)
(* s.removeprefix(f + ".")  is  Tail(s),  and  f in fields_  is            *)
(* <<f>> \in Range(fields_).                                                *)
(*                                                                         *)
(* A type object is its index in `heap`: two types are the same object     *)
(* iff their indices are equal.                                            *)
(***************************************************************************)
EXTENDS Integers, Sequences, FiniteSets, TLC

VARIABLES
    heap,       \* the type objects created so far, base classes first
    cache,      \* lru_cache's dictionary: cache key -> type object
    bodyLog,    \* the executions of create_partial_model's body, in order
    calls,      \* the top-level calls made so far, with what each returned
    target,     \* the class the caller derives from
    selectors,  \* the selector tuple the caller passes
    permuted,   \* the same selectors in another (or the same) order
    flag,       \* the recursive flag the caller passes
    pc,         \* threads: where each thread is in the lru_cache wrapper
    got,        \* threads: the type object each thread's call returned
    stack,      \* stepwise run: the active create_partial_model frames
    memo,       \* stepwise run: the cache keys stored so far
    outcome     \* stepwise run: "idle", "running", "returned", "RecursionError"

vars == <<heap, cache, bodyLog, calls, target, selectors, permuted, flag,
          pc, got, stack, memo, outcome>>

----------------------------------------------------------------------------
(* Bounds of the exploration.                                              *)

\* longest selector tuple a top-level call passes
MaxSelectors == 2
\* the interpreter's recursion limit, counted in nested derive calls
RecursionLimit == 4

----------------------------------------------------------------------------
(* Generic helpers.                                                        *)

Range(s) == {s[i] : i \in DOMAIN s}

RECURSIVE Dedupe(_)
Dedupe(s) ==
    IF s = <<>> THEN <<>>
    ELSE LET rest == Dedupe(SelectSeq(Tail(s), LAMBDA x : x # Head(s)))
         IN  <<Head(s)>> \o rest

----------------------------------------------------------------------------
(* Type annotations.                                                       *)

Prim(n) == [kind |-> "prim", ref |-> 0, origin |-> n, args |-> <<>>]
ModelRef(id) == [kind |-> "model", ref |-> id, origin |-> "", args |-> <<>>]
Generic(o, as) == [kind |-> "generic", ref |-> 0, origin |-> o, args |-> as]
NoneType == Prim("NoneType")
\* FieldInfo.annotation of a field whose annotation cannot be resolved (None)
NoAnnotation == [kind |-> "unresolved", ref |-> 0, origin |-> "", args |-> <<>>]

\* typing.get_origin: the unsubscripted origin of a parametrized annotation,
\* None for anything else.  X | Y has origin types.UnionType, not typing.Union.
GetOrigin(ann) == IF ann.kind = "generic" THEN ann.origin ELSE "None"

GetArgs(ann) == ann.args

\* the origins create_partial_model rebuilds: (Union, list, Tuple, tuple, List, dict, Dict)
RewrittenOrigins == {"Union", "list", "tuple", "dict"}

IsUnion(ann) == ann.kind = "generic" /\ ann.origin \in {"Union", "UnionType"}

\* typing.Union[args]: nested unions are flattened, duplicates dropped, and a
\* union of one member is that member.
RECURSIVE FlattenUnion(_)
FlattenUnion(as) ==
    IF as = <<>> THEN <<>>
    ELSE (IF IsUnion(Head(as)) THEN Head(as).args ELSE <<Head(as)>>)
         \o FlattenUnion(Tail(as))

MakeUnion(as) ==
    LET flat == Dedupe(FlattenUnion(as))
    IN  IF Len(flat) = 1 THEN flat[1] ELSE Generic("Union", flat)

\* origin[tuple(args)]
Subscript(origin, as) ==
    IF origin = "Union" THEN MakeUnion(as) ELSE Generic(origin, as)

\* typing.Optional[ann]
OptionalOf(ann) == MakeUnion(<<ann, NoneType>>)

----------------------------------------------------------------------------
(* Field descriptors and model types.                                      *)

Undefined == "PydanticUndefined"

Field(n, ann, req, dflt) ==
    [name |-> n, annotation |-> ann, required |-> req, default |-> dflt,
     nullable |-> FALSE]

Required(n, ann) == Field(n, ann, TRUE, Undefined)

\* a model class: its __name__ is stem followed by `partials` times "Partial"
Class(stem, isMixin, fs) ==
    [stem |-> stem, partials |-> 0, base |-> 0, mixin |-> isMixin,
     fields |-> fs, overrides |-> {}]

\* The model classes the caller has declared, in the order of their creation:
\* 1 Leaf, 2 Plain, 3 Node, 4 Box, 5 CycA, 6 CycB, 7 Root.  All but Plain
\* adopt PartialModelMixin; Plain is a bare pydantic.BaseModel.  CycA and CycB
\* nest one another; Root nests Node, which nests Leaf.  Every field's
\* annotation is resolved, as pydantic guarantees for a declared field.
BaseHeap ==
    << Class("Leaf", TRUE,
             << Required("name", Prim("str")),
                Field("age", Prim("int"), FALSE, "five") >>),
       Class("Plain", FALSE,
             << Required("x", Prim("int")) >>),
       Class("Node", TRUE,
             << Required("child", ModelRef(1)),
                Field("opt", Generic("Union", <<ModelRef(1), NoneType>>),
                      FALSE, "None"),
                Field("dflt", ModelRef(1), FALSE, "leaf0") >>),
       Class("Box", TRUE,
             << Required("items", Generic("list", <<ModelRef(1)>>)),
                Required("plain", ModelRef(2)),
                Field("alt", Generic("UnionType", <<ModelRef(1), NoneType>>),
                      FALSE, "None") >>),
       Class("CycA", TRUE,
             << Required("b", ModelRef(6)) >>),
       Class("CycB", TRUE,
             << Field("a", Generic("Union", <<ModelRef(5), NoneType>>),
                      FALSE, "None") >>),
       Class("Root", TRUE,
             << Required("node", ModelRef(3)) >>) >>

BaseClasses == DOMAIN BaseHeap

ClassNamed(stem) == CHOOSE c \in BaseClasses : BaseHeap[c].stem = stem

----------------------------------------------------------------------------
(* PydanticCompat: the field-introspection interface.                      *)

\* model_compat.model_fields: the ordered field mapping of a model class
ModelFields(h, cls) == h[cls].fields

GetModelFieldInfoAnnotation(fieldInfo) == fieldInfo.annotation

IsModelFieldInfoRequired(fieldInfo) == fieldInfo.required

\* copy_model_field_info(field_info): an unchanged copy
CopyModelFieldInfo(fieldInfo, ann) == [fieldInfo EXCEPT !.annotation = ann]

\* copy_model_field_info(field_info, default=None, ..., nullable=True)
CopyModelFieldInfoOptional(fieldInfo, ann) ==
    [fieldInfo EXCEPT !.annotation = ann, !.required = FALSE,
                      !.default = "None", !.nullable = TRUE]

\* pydantic.create_model(f"{base_cls.__name__}Partial", __base__=base_cls,
\* **optional_fields): a new subclass whose overridden fields replace the
\* inherited ones.
RECURSIVE Override(_, _)
Override(fs, ov) ==
    IF fs = <<>> THEN <<>>
    ELSE LET hit == SelectSeq(ov, LAMBDA o : o.name = Head(fs).name)
         IN  <<IF hit = <<>> THEN Head(fs) ELSE hit[1]>> \o Override(Tail(fs), ov)

CreateModel(h, cls, optionalFields) ==
    [stem |-> h[cls].stem, partials |-> h[cls].partials + 1, base |-> cls,
     mixin |-> h[cls].mixin,
     fields |-> Override(h[cls].fields, optionalFields),
     overrides |-> {optionalFields[i].name : i \in DOMAIN optionalFields}]

----------------------------------------------------------------------------
(* functools.lru_cache(maxsize=None, typed=True).                          *)

\* The key lru_cache builds from a call: the positional arguments and the
\* keyword arguments as passed.  A call that leaves `recursive` out has no
\* keyword in its key.
KwAbsent == "absent"
KwOf(recursive) == IF recursive THEN "True" ELSE "False"
RecursiveOf(kw) == kw = "True"

CacheKey(cls, fields, kw) == <<cls, fields, kw>>

\* what the memoized function is meant to depend on
Triple(cls, fields, recursive) == <<cls, fields, recursive>>

----------------------------------------------------------------------------
(* create_partial_model.                                                   *)

StartsWithPrefix(selector, fieldName) ==
    Len(selector) > 1 /\ selector[1] = fieldName

RemovePrefix(selector) == Tail(selector)

\* EffectiveFields without the default: no selectors select nothing
EffectiveFieldsNoDefault(h, cls, fields) == fields

\* fields_ : the passed selectors, or every field name when none is passed
EffectiveFields(h, cls, fields) ==
    IF fields # <<>> THEN fields
    ELSE [i \in DOMAIN ModelFields(h, cls) |-> <<ModelFields(h, cls)[i].name>>]

SubFieldsRequested(fields_, fieldName) ==
    \E i \in DOMAIN fields_ : StartsWithPrefix(fields_[i], fieldName)

\* FieldSkipped without the `continue`: every field is handled
FieldSkippedNever(fields_, fieldName) == FALSE

\* FieldSkipped looking at the first selector only
FieldSkippedFirstOnly(fields_, fieldName) ==
    /\ <<fieldName>> # Head(fields_)
    /\ ~StartsWithPrefix(Head(fields_), fieldName)

FieldSkipped(fields_, fieldName) ==
    <<fieldName>> \notin Range(fields_) /\ ~SubFieldsRequested(fields_, fieldName)

\* RewriteRequested without its condition: every handled field is rewritten
RewriteRequestedAlways(fields_, fieldName, recursive) == TRUE

\* "if recursive or sub_fields_requested"
RewriteRequested(fields_, fieldName, recursive) ==
    recursive \/ SubFieldsRequested(fields_, fieldName)

\* ChildrenFields without the replacement of ["*"] by []
ChildrenFieldsKeepWildcard(fields_, fieldName) ==
    LET kept == SelectSeq(fields_, LAMBDA sel : StartsWithPrefix(sel, fieldName))
    IN  [k \in DOMAIN kept |-> RemovePrefix(kept[k])]

\* children_fields of _partial_annotation_arg
ChildrenFields(fields_, fieldName) ==
    LET stripped == [i \in DOMAIN fields_ |-> RemovePrefix(fields_[i])]
        kept == SelectSeq([i \in DOMAIN fields_ |-> i],
                          LAMBDA i : StartsWithPrefix(fields_[i], fieldName))
        children == [k \in DOMAIN kept |-> stripped[kept[k]]]
    IN  IF children = << <<"*">> >> THEN <<>> ELSE children

IsPartialModel(h, ann) == ann.kind = "model" /\ h[ann.ref].mixin

\* The running state of a derivation: the heap of types, the cache, the log
\* of executed bodies, whether RecursionError is propagating, and the value
\* returned by the last completed call.
Failed(st) == [st EXCEPT !.err = TRUE, !.result = 0]

RECURSIVE CachedCall(_, _, _, _, _)
RECURSIVE FieldLoop(_, _, _, _, _, _)
RECURSIVE RewriteArgs(_, _, _, _, _, _)

\* PartialModelMixin.as_partial
AsPartialCall(cls, fields, recursive, st, d) ==
    CachedCall(cls, fields, KwOf(recursive), st, d)

\* the value _partial_annotation_arg returns for a derivable model: what
\* as_partial returned
Substituted(r) == [st |-> r, ann |-> ModelRef(r.result)]

\* _partial_annotation_arg not passing `recursive` on to as_partial
PartialAnnotationArgDropsFlag(fieldName, ann, fields_, recursive, st, d) ==
    IF st.err THEN [st |-> st, ann |-> ann]
    ELSE IF IsPartialModel(st.heap, ann)
    THEN Substituted(AsPartialCall(ann.ref, ChildrenFields(fields_, fieldName),
                                   FALSE, st, d + 1))
    ELSE [st |-> st, ann |-> ann]

\* _partial_annotation_arg: [st, ann]
PartialAnnotationArg(fieldName, ann, fields_, recursive, st, d) ==
    IF st.err THEN [st |-> st, ann |-> ann]
    ELSE IF IsPartialModel(st.heap, ann)
    THEN Substituted(AsPartialCall(ann.ref, ChildrenFields(fields_, fieldName),
                                   recursive, st, d + 1))
    ELSE [st |-> st, ann |-> ann]

Collected(acc, r) == [st |-> r.st, args |-> Append(acc.args, r.ann)]

\* the generator over get_args(field_annotation); acc is [st, args]
RewriteArgs(fieldName, as, acc, fields_, recursive, d) ==
    IF as = <<>> THEN acc
    ELSE RewriteArgs(fieldName, Tail(as),
                     Collected(acc, PartialAnnotationArg(fieldName, Head(as), fields_,
                                                         recursive, acc.st, d)),
                     fields_, recursive, d)

\* field_annotation_origin[tuple(...)]
Rebuilt(origin, r) == [st |-> r.st, ann |-> Subscript(origin, r.args)]

\* "Change type for sub models, if requested": [st, ann]
RewriteAnnotation(fieldName, ann, fields_, recursive, st, d) ==
    IF GetOrigin(ann) \in RewrittenOrigins
    THEN Rebuilt(GetOrigin(ann),
                 RewriteArgs(fieldName, GetArgs(ann), [st |-> st, args |-> <<>>],
                             fields_, recursive, d))
    ELSE PartialAnnotationArg(fieldName, ann, fields_, recursive, st, d)

\* NewFieldDefinition copying the field with its original annotation when the
\* field is reached through a nested path only
NewFieldDefinitionKeepsAnnotation(fieldInfo, ann, fields_, recursive) ==
    IF <<fieldInfo.name>> \in Range(fields_)
    THEN IF IsModelFieldInfoRequired(fieldInfo)
         THEN <<CopyModelFieldInfoOptional(fieldInfo, OptionalOf(ann))>>
         ELSE <<>>
    ELSE IF recursive \/ SubFieldsRequested(fields_, fieldInfo.name)
    THEN <<CopyModelFieldInfo(fieldInfo, fieldInfo.annotation)>>
    ELSE <<>>

\* "Construct new field definition": the override of one field, if any
NewFieldDefinition(fieldInfo, ann, fields_, recursive) ==
    IF <<fieldInfo.name>> \in Range(fields_)
    THEN IF IsModelFieldInfoRequired(fieldInfo)
         THEN <<CopyModelFieldInfoOptional(fieldInfo, OptionalOf(ann))>>
         ELSE <<>>
    ELSE IF recursive \/ SubFieldsRequested(fields_, fieldInfo.name)
    THEN <<CopyModelFieldInfo(fieldInfo, ann)>>
    ELSE <<>>

\* one pass of the loop over model_fields.items(); acc is [st, optional]
FieldStep(fieldInfo, fields_, recursive, acc, d) ==
    IF GetModelFieldInfoAnnotation(fieldInfo) = NoAnnotation
       \/ FieldSkipped(fields_, fieldInfo.name)
    THEN [st |-> acc.st, ann |-> NoAnnotation, emit |-> FALSE]
    ELSE IF RewriteRequested(fields_, fieldInfo.name, recursive)
    THEN RewriteAnnotation(fieldInfo.name, GetModelFieldInfoAnnotation(fieldInfo),
                           fields_, recursive, acc.st, d) @@ [emit |-> TRUE]
    ELSE [st |-> acc.st, ann |-> GetModelFieldInfoAnnotation(fieldInfo), emit |-> TRUE]

Emitted(fieldInfo, fields_, recursive, acc, r) ==
    [st |-> r.st,
     optional |-> IF r.emit
                  THEN acc.optional \o NewFieldDefinition(fieldInfo, r.ann, fields_, recursive)
                  ELSE acc.optional]

\* the loop over model_fields.items(), from field i on; acc is [st, optional]
FieldLoop(cls, fields_, recursive, i, acc, d) ==
    IF i > Len(ModelFields(acc.st.heap, cls)) \/ acc.st.err THEN acc
    ELSE FieldLoop(cls, fields_, recursive, i + 1,
                   Emitted(ModelFields(acc.st.heap, cls)[i], fields_, recursive, acc,
                           FieldStep(ModelFields(acc.st.heap, cls)[i], fields_,
                                     recursive, acc, d)),
                   d)

\* "Return original model class if nothing has changed", else the new subclass
Returned(cls, r) ==
    IF r.st.err THEN Failed(r.st)
    ELSE IF r.optional = <<>> THEN [r.st EXCEPT !.result = cls]
    ELSE [r.st EXCEPT !.heap = Append(@, CreateModel(r.st.heap, cls, r.optional)),
                      !.result = Len(r.st.heap) + 1]

\* the body of create_partial_model, run at nesting depth d
CreatePartialModelBody(cls, fields, recursive, st, d) ==
    IF d > RecursionLimit THEN Failed(st)
    ELSE Returned(cls,
                  FieldLoop(cls, EffectiveFields(st.heap, cls, fields), recursive, 1,
                            [st |-> [st EXCEPT !.log = Append(@, Triple(cls, fields, recursive))],
                             optional |-> <<>>],
                            d))

\* storing the value the body returned; an exception stores nothing
Stored(key, r) ==
    IF r.err THEN r ELSE [r EXCEPT !.cache = (key :> r.result) @@ r.cache]

\* the lru_cache wrapper: a hit returns the cached object, a miss runs the
\* body and stores what it returns
CachedCall(cls, fields, kw, st, d) ==
    IF st.err THEN st
    ELSE IF CacheKey(cls, fields, kw) \in DOMAIN st.cache
    THEN [st EXCEPT !.result = st.cache[CacheKey(cls, fields, kw)]]
    ELSE Stored(CacheKey(cls, fields, kw),
                CreatePartialModelBody(cls, fields, RecursiveOf(kw), st, d))

----------------------------------------------------------------------------
(* The sequential program: a caller making top-level calls one at a time.  *)

EmptyCache == [k \in {} |-> 0]

\* the selector strings a caller passes for a class: its field names, nested
\* paths under them, the wildcard, and names that match nothing
SelectorPool(cls) ==
    CASE cls = ClassNamed("Leaf") ->
           { <<"name">>, <<"age">>, <<"zz">>, <<"name", "x">> }
      [] cls = ClassNamed("Plain") ->
           { <<"x">>, <<"zz">> }
      [] cls = ClassNamed("Node") ->
           { <<"child">>, <<"child", "*">>, <<"child", "name">>, <<"child", "zz">>,
             <<"opt">>, <<"opt", "*">> }
      [] cls = ClassNamed("Box") ->
           { <<"items">>, <<"items", "*">>, <<"plain", "x">>, <<"alt">>, <<"alt", "*">> }
      [] cls = ClassNamed("CycA") ->
           { <<"b">>, <<"b", "*">>, <<"b", "a", "*">> }
      [] cls = ClassNamed("Root") ->
           { <<"node">>, <<"node", "*">>, <<"node", "child", "*">> }
      [] OTHER -> { <<"a">>, <<"a", "*">> }

SelectorTuples(cls) ==
    UNION { [1..n -> SelectorPool(cls)] : n \in 0..MaxSelectors }

RemoveAt(s, i) == SubSeq(s, 1, i - 1) \o SubSeq(s, i + 1, Len(s))

RECURSIVE Reorderings(_)
Reorderings(s) ==
    IF s = <<>> THEN { <<>> }
    ELSE UNION { { <<s[i]>> \o p : p \in Reorderings(RemoveAt(s, i)) } : i \in DOMAIN s }

Start(h, c, log) == [heap |-> h, cache |-> c, log |-> log, err |-> FALSE, result |-> 0]

CallRecord(cls, fields, kw, r) ==
    [cls |-> cls, fields |-> fields, kw |-> kw, recursive |-> RecursiveOf(kw),
     result |-> r.result, raised |-> r.err]

\* RecursionError is not caught by the caller: the program ends with it
Running == \A c \in calls : ~c.raised

\* the state after a top-level call that ended in r
Commit(cls, fields, kw, r) ==
    /\ Running
    /\ heap' = r.heap
    /\ cache' = r.cache
    /\ bodyLog' = r.log
    /\ calls' = calls \cup {CallRecord(cls, fields, kw, r)}
    /\ UNCHANGED <<target, selectors, permuted, flag, pc, got, stack, memo, outcome>>

\* cls.as_partial(*fields, recursive=recursive)
AsPartial(cls, fields, recursive) ==
    /\ heap[cls].mixin
    /\ Commit(cls, fields, KwOf(recursive),
              AsPartialCall(cls, fields, recursive, Start(heap, cache, bodyLog), 1))

\* create_partial_model(cls, *fields, recursive=recursive)
CreatePartialModel(cls, fields, recursive) ==
    Commit(cls, fields, KwOf(recursive),
           CachedCall(cls, fields, KwOf(recursive), Start(heap, cache, bodyLog), 1))

\* create_partial_model(cls, *fields): recursive is left to its default
CreatePartialModelDefault(cls, fields) ==
    Commit(cls, fields, KwAbsent,
           CachedCall(cls, fields, KwAbsent, Start(heap, cache, bodyLog), 1))

\* the program before its first call, and the call the caller will make
Fresh ==
    /\ heap = BaseHeap
    /\ cache = EmptyCache
    /\ bodyLog = <<>>
    /\ calls = {}
    /\ target \in BaseClasses
    /\ selectors \in SelectorTuples(target)
    /\ flag \in BOOLEAN
    /\ pc = <<>>
    /\ got = <<>>
    /\ stack = <<>>
    /\ memo = {}
    /\ outcome = "idle"

Init ==
    /\ Fresh
    /\ permuted \in Reorderings(selectors)

Next ==
    \/ \E fields \in {selectors, permuted} : AsPartial(target, fields, flag)
    \/ \E fields \in {selectors, permuted} : CreatePartialModel(target, fields, flag)
    \/ \E fields \in {selectors, permuted} :
         ~flag /\ CreatePartialModelDefault(target, fields)

Spec == Init /\ [][Next]_vars

----------------------------------------------------------------------------
(* Threads: several threads make the same as_partial call.  lru_cache holds *)
(* no lock while the wrapped function runs: a thread that misses runs the  *)
(* body and then stores its result, whatever the dictionary holds by then. *)
(* The body's own work, nested calls included, is taken as one step.       *)

\* number of threads making the call
NumThreads == 2

Threads == 1..NumThreads

TheKey == CacheKey(target, selectors, KwOf(flag))

ThreadCommit(t, r, nextPc) ==
    /\ heap' = r.heap
    /\ cache' = r.cache
    /\ bodyLog' = r.log
    /\ pc' = [pc EXCEPT ![t] = nextPc]
    /\ got' = [got EXCEPT ![t] = r.result]
    /\ UNCHANGED <<calls, target, selectors, permuted, flag, stack, memo, outcome>>

\* the wrapper's dictionary lookup finds the key
LookupHit(t) ==
    /\ pc[t] = "call"
    /\ TheKey \in DOMAIN cache
    /\ ThreadCommit(t, [Start(heap, cache, bodyLog) EXCEPT !.result = cache[TheKey]], "done")

\* the wrapper's dictionary lookup finds nothing
LookupMiss(t) ==
    /\ pc[t] = "call"
    /\ TheKey \notin DOMAIN cache
    /\ pc' = [pc EXCEPT ![t] = "missed"]
    /\ UNCHANGED <<heap, cache, bodyLog, calls, target, selectors, permuted, flag,
                   got, stack, memo, outcome>>

\* the wrapped function runs and the wrapper stores what it returned
RunAndStore(t) ==
    /\ pc[t] = "missed"
    /\ ThreadCommit(t,
                    Stored(TheKey,
                           CreatePartialModelBody(target, selectors, flag,
                                                  Start(heap, cache, bodyLog), 1)),
                    "done")

InitThreads ==
    /\ heap = BaseHeap
    /\ cache = EmptyCache
    /\ bodyLog = <<>>
    /\ calls = {}
    /\ target \in {c \in BaseClasses : BaseHeap[c].mixin}
    /\ selectors \in SelectorTuples(target)
    /\ permuted = selectors
    /\ flag \in BOOLEAN
    /\ pc = [t \in Threads |-> "call"]
    /\ got = [t \in Threads |-> 0]
    /\ stack = <<>>
    /\ memo = {}
    /\ outcome = "idle"

NextThreads ==
    \E t \in Threads : LookupHit(t) \/ LookupMiss(t) \/ RunAndStore(t)

SpecThreads == InitThreads /\ [][NextThreads]_vars

----------------------------------------------------------------------------
(* Stepwise run of one top-level call: the frames of create_partial_model  *)
(* as the interpreter enters and leaves them.  Only the control flow is    *)
(* followed: which nested as_partial calls a frame makes, in which order,  *)
(* and which of them the cache answers.                                    *)

RECURSIVE Concat(_)
Concat(ss) == IF ss = <<>> THEN <<>> ELSE Head(ss) \o Concat(Tail(ss))

\* the as_partial calls made while one field is handled
CallsOfField(h, fieldInfo, fields_, recursive) ==
    IF \/ GetModelFieldInfoAnnotation(fieldInfo) = NoAnnotation
       \/ FieldSkipped(fields_, fieldInfo.name)
       \/ ~RewriteRequested(fields_, fieldInfo.name, recursive)
    THEN <<>>
    ELSE LET ann == GetModelFieldInfoAnnotation(fieldInfo)
             args == IF GetOrigin(ann) \in RewrittenOrigins THEN GetArgs(ann) ELSE <<ann>>
             models == SelectSeq(args, LAMBDA a : IsPartialModel(h, a))
         IN  [k \in DOMAIN models |->
                [cls |-> models[k].ref,
                 fields |-> ChildrenFields(fields_, fieldInfo.name),
                 recursive |-> recursive]]

\* the as_partial calls the body of create_partial_model makes, in order
NestedCalls(h, cls, fields, recursive) ==
    Concat([i \in DOMAIN ModelFields(h, cls) |->
              CallsOfField(h, ModelFields(h, cls)[i],
                           EffectiveFields(h, cls, fields), recursive)])

Frame(call) ==
    [cls |-> call.cls, fields |-> call.fields, recursive |-> call.recursive,
     pending |-> NestedCalls(BaseHeap, call.cls, call.fields, call.recursive)]

FrameKey(fr) == CacheKey(fr.cls, fr.fields, KwOf(fr.recursive))

Top == stack[Len(stack)]

StepFrame == UNCHANGED <<heap, cache, bodyLog, calls, target, selectors, permuted,
                         flag, pc, got>>

\* the caller's target.as_partial(*selectors, recursive=flag)
Begin ==
    /\ outcome = "idle"
    /\ stack' = <<Frame([cls |-> target, fields |-> selectors, recursive |-> flag])>>
    /\ outcome' = "running"
    /\ UNCHANGED memo
    /\ StepFrame

\* a nested as_partial call the cache answers
NestedHit ==
    /\ outcome = "running" /\ Top.pending # <<>>
    /\ CacheKey(Head(Top.pending).cls, Head(Top.pending).fields,
                KwOf(Head(Top.pending).recursive)) \in memo
    /\ stack' = [stack EXCEPT ![Len(stack)].pending = Tail(@)]
    /\ UNCHANGED <<memo, outcome>>
    /\ StepFrame

\* a nested as_partial call that enters create_partial_model
NestedMiss ==
    /\ outcome = "running" /\ Top.pending # <<>>
    /\ CacheKey(Head(Top.pending).cls, Head(Top.pending).fields,
                KwOf(Head(Top.pending).recursive)) \notin memo
    /\ Len(stack) < RecursionLimit
    /\ stack' = Append(stack, Frame(Head(Top.pending)))
    /\ UNCHANGED <<memo, outcome>>
    /\ StepFrame

\* a nested call beyond the recursion limit: RecursionError unwinds every frame
Overflow ==
    /\ outcome = "running" /\ Top.pending # <<>>
    /\ CacheKey(Head(Top.pending).cls, Head(Top.pending).fields,
                KwOf(Head(Top.pending).recursive)) \notin memo
    /\ Len(stack) >= RecursionLimit
    /\ stack' = <<>>
    /\ outcome' = "RecursionError"
    /\ UNCHANGED memo
    /\ StepFrame

\* create_partial_model returns; the wrapper stores the result and the caller
\* frame goes on with its next nested call
Return ==
    /\ outcome = "running" /\ Top.pending = <<>>
    /\ memo' = memo \cup {FrameKey(Top)}
    /\ stack' = IF Len(stack) = 1 THEN <<>>
                ELSE [SubSeq(stack, 1, Len(stack) - 1)
                        EXCEPT ![Len(stack) - 1].pending = Tail(@)]
    /\ outcome' = IF Len(stack) = 1 THEN "returned" ELSE "running"
    /\ StepFrame

InitSteps ==
    /\ Fresh
    /\ BaseHeap[target].mixin
    /\ permuted = selectors

NextSteps == Begin \/ NestedHit \/ NestedMiss \/ Overflow \/ Return

\* the interpreter runs a started call on until it returns or raises
SpecSteps == InitSteps /\ [][NextSteps]_vars /\ WF_vars(NextSteps)

----------------------------------------------------------------------------
(* Vocabulary of the properties.                                           *)

FieldNamed(h, cls, n) == CHOOSE f \in Range(h[cls].fields) : f.name = n

\* the top-level calls that returned a type
Completed == {c \in calls : ~c.raised}

\* the names create_partial_model overrode in the type a call returned
OverridesOf(c) == IF c.result = c.cls THEN {} ELSE heap[c.result].overrides

\* the type object cls.as_partial(*fields, recursive=recursive) returns when
\* called in the current state
DeriveNow(cls, fields, recursive) ==
    AsPartialCall(cls, fields, recursive, Start(heap, cache, bodyLog), 1).result

Named(c, f) == <<f.name>> \in Range(EffectiveFields(BaseHeap, c.cls, c.fields))
Dotted(c, f) == \E i \in DOMAIN c.fields : Len(c.fields[i]) > 1 /\ c.fields[i][1] = f.name

AllOptional(h, cls) == \A f \in Range(h[cls].fields) : ~f.required

MadeOptional(g) ==
    /\ ~g.required
    /\ g.default = "None"
    /\ g.annotation.kind = "generic" /\ g.annotation.origin = "Union"
    /\ NoneType \in Range(g.annotation.args)

----------------------------------------------------------------------------
(* C2: derive(T) with no selectors.                                        *)

NoSelectorCalls == {c \in Completed : c.fields = <<>> /\ ~c.recursive}

\* C2 as stated: after derive(T) with zero selectors and recursive=False every
\* top-level field of T is optional and has None as its default.
C2_Original ==
    \A c \in NoSelectorCalls : \A g \in Range(heap[c.result].fields) :
        ~g.required /\ g.default = "None"

\* C2 amended: after derive(T) with zero selectors and recursive=False no
\* top-level field of T is required: each field that was required is
\* overridden to Optional[its annotation] with default None, and each field
\* that was already optional has no override and keeps its own default.
C2_NoSelectorsAllOptional ==
    \A c \in NoSelectorCalls :
        /\ AllOptional(heap, c.result)
        /\ OverridesOf(c) = {f.name : f \in {x \in Range(BaseHeap[c.cls].fields) : x.required}}
        /\ \A f \in Range(BaseHeap[c.cls].fields) :
             LET g == FieldNamed(heap, c.result, f.name)
             IN  IF f.required
                 THEN MadeOptional(g) /\ g.annotation = OptionalOf(f.annotation)
                 ELSE g = f

C2_Witness ==
    \E c \in NoSelectorCalls :
        /\ c.result # c.cls
        /\ \E f \in Range(BaseHeap[c.cls].fields) : ~f.required /\ f.default # "None"

----------------------------------------------------------------------------
(* C3: selected fields become optional, unselected ones are untouched.     *)

SelectorCalls == {c \in Completed : c.fields # <<>>}

\* C3: for a non-empty selector list and either recursive flag, each required
\* field whose bare name is a selector becomes optional (nullable annotation,
\* default None), and each field that is neither named nor the prefix of a
\* dotted selector gets no override and is the same descriptor as in T.
C3_SelectedOptionalOthersUnchanged ==
    \A c \in SelectorCalls : \A f \in Range(BaseHeap[c.cls].fields) :
        /\ (f.required /\ Named(c, f)) =>
             (f.name \in OverridesOf(c) /\ MadeOptional(FieldNamed(heap, c.result, f.name)))
        /\ (~Named(c, f) /\ ~Dotted(c, f)) =>
             (f.name \notin OverridesOf(c) /\ FieldNamed(heap, c.result, f.name) = f)

C3_Witness ==
    \E c \in SelectorCalls :
        /\ c.recursive
        /\ \E f \in Range(BaseHeap[c.cls].fields) : f.required /\ Named(c, f)
        /\ \E f \in Range(BaseHeap[c.cls].fields) :
             ~Named(c, f) /\ ~Dotted(c, f) /\ IsPartialModel(BaseHeap, f.annotation)

----------------------------------------------------------------------------
(* C4: the nested wildcard.                                                *)

Wildcard(f) == <<f.name, "*">>
Bare(f) == <<f.name>>

ModelFieldsOf(cls) == {f \in Range(BaseHeap[cls].fields) : IsPartialModel(BaseHeap, f.annotation)}

\* C4: for a field child whose type U is a derivable model, derive(T, "child.*")
\* returns a type whose child annotation is the type derive(U) returns, all of
\* whose fields are optional, while child keeps its required flag and default;
\* child becomes optional (Optional[derive(U)], default None) when the bare
\* selector "child" is passed as well.
C4_NestedWildcard ==
    \A c \in Completed : \A f \in ModelFieldsOf(c.cls) :
        LET g == FieldNamed(heap, c.result, f.name)
            u == ModelRef(DeriveNow(f.annotation.ref, <<>>, FALSE))
        IN  /\ (~c.recursive /\ c.fields = <<Wildcard(f)>>) =>
                 /\ g.annotation = u
                 /\ AllOptional(heap, u.ref)
                 /\ g.required = f.required /\ g.default = f.default
            /\ (~c.recursive /\ f.required
                /\ c.fields \in {<<Wildcard(f), Bare(f)>>, <<Bare(f), Wildcard(f)>>}) =>
                 /\ g.annotation = OptionalOf(u)
                 /\ AllOptional(heap, u.ref)
                 /\ MadeOptional(g)

C4_Witness ==
    \E c \in Completed : \E f \in ModelFieldsOf(c.cls) :
        /\ ~c.recursive /\ c.fields = <<Wildcard(f)>> /\ f.required
        /\ FieldNamed(heap, c.result, f.name).annotation.ref # f.annotation.ref

----------------------------------------------------------------------------
(* C5: the recursive flag without selectors.                               *)

RecursiveCalls == {c \in Completed : c.fields = <<>> /\ c.recursive}

\* C5 as stated: derive(T, recursive=True) rewrites the annotation of a
\* model-typed field child: U to the fully-optional derived U and preserves
\* child's own required flag and default.
C5_Original ==
    \A c \in RecursiveCalls : \A f \in ModelFieldsOf(c.cls) :
        LET g == FieldNamed(heap, c.result, f.name)
        IN  /\ g.annotation = ModelRef(DeriveNow(f.annotation.ref, <<>>, TRUE))
            /\ g.required = f.required /\ g.default = f.default

\* C5 amended: derive(T, recursive=True) with no selectors selects every
\* top-level field, so a required model-typed field child: U becomes optional:
\* its annotation is Optional[derive(U, recursive=True)], whose fields are all
\* optional, and its default None; a model-typed field that is already
\* optional gets no override and keeps its annotation U and its default.
C5_RecursiveNoSelectors ==
    \A c \in RecursiveCalls : \A f \in ModelFieldsOf(c.cls) :
        LET g == FieldNamed(heap, c.result, f.name)
            u == ModelRef(DeriveNow(f.annotation.ref, <<>>, TRUE))
        IN  IF f.required
            THEN /\ g.annotation = OptionalOf(u)
                 /\ AllOptional(heap, u.ref)
                 /\ MadeOptional(g)
            ELSE f.name \notin OverridesOf(c) /\ g = f

C5_Witness ==
    \E c \in RecursiveCalls :
        /\ \E f \in ModelFieldsOf(c.cls) : f.required
        /\ \E f \in ModelFieldsOf(c.cls) : ~f.required

----------------------------------------------------------------------------
(* C6: selectors that match nothing.                                       *)

FieldNames(cls) == {f.name : f \in Range(BaseHeap[cls].fields)}

\* a selector that names a nonexistent top-level field, or a nested path that
\* does not exist: under a nonexistent field, under a field whose type is not
\* a derivable model, or naming no field of that model
RECURSIVE Unmatched(_, _)
Unmatched(cls, sel) ==
    IF sel[1] \notin FieldNames(cls) THEN TRUE
    ELSE IF Len(sel) = 1 THEN FALSE
    ELSE LET ann == FieldNamed(BaseHeap, cls, sel[1]).annotation
         IN  IF ann.kind = "generic" THEN FALSE
             ELSE IF ~IsPartialModel(BaseHeap, ann) THEN TRUE
             ELSE IF Tail(sel) = <<"*">> THEN FALSE
             ELSE Unmatched(ann.ref, Tail(sel))

UnmatchedCalls ==
    {c \in calls : c.fields # <<>> /\ \A i \in DOMAIN c.fields : Unmatched(c.cls, c.fields[i])}

\* C6: when every selector names a nonexistent field or a nonexistent nested
\* path, derive raises nothing, emits no override, runs no nested derivation
\* and returns T itself.
C6_UnmatchedIsIdentity ==
    \A c \in UnmatchedCalls :
        /\ ~c.raised
        /\ c.result = c.cls
        /\ \A i \in DOMAIN bodyLog : bodyLog[i][1] = c.cls

----------------------------------------------------------------------------
(* C8: permuted selector tuples.                                           *)

RECURSIVE TypeEquiv(_, _, _)
RECURSIVE AnnEquiv(_, _, _)

\* two annotations of the same shape over equivalent model types
AnnEquiv(h, a, b) ==
    /\ a.kind = b.kind /\ a.origin = b.origin /\ Len(a.args) = Len(b.args)
    /\ a.kind = "model" => TypeEquiv(h, a.ref, b.ref)
    /\ \A i \in DOMAIN a.args : AnnEquiv(h, a.args[i], b.args[i])

\* two types with the same name and base, the same overridden fields, and
\* field by field the same optionality, default and nested derived structure
TypeEquiv(h, x, y) ==
    \/ x = y
    \/ /\ h[x].stem = h[y].stem /\ h[x].partials = h[y].partials
       /\ h[x].base = h[y].base /\ h[x].overrides = h[y].overrides
       /\ Len(h[x].fields) = Len(h[y].fields)
       /\ \A i \in DOMAIN h[x].fields :
            LET f == h[x].fields[i]
                g == h[y].fields[i]
            IN  /\ f.name = g.name /\ f.required = g.required
                /\ f.default = g.default /\ f.nullable = g.nullable
                /\ AnnEquiv(h, f.annotation, g.annotation)

Occurrences(s, x) == Cardinality({i \in DOMAIN s : s[i] = x})

IsPermutation(s, t) ==
    /\ Len(s) = Len(t)
    /\ \A x \in Range(s) \cup Range(t) : Occurrences(s, x) = Occurrences(t, x)

PermutedPairs ==
    {p \in Completed \X Completed :
        /\ p[1].cls = p[2].cls /\ p[1].recursive = p[2].recursive
        /\ p[1].fields # p[2].fields
        /\ IsPermutation(p[1].fields, p[2].fields)}

KeyOf(c) == CacheKey(c.cls, c.fields, c.kw)

\* C8 as stated: two calls whose selector tuples are permutations of one
\* another and differ as tuples occupy distinct cache entries and return
\* equivalent types that are distinct objects.
C8_Original ==
    \A p \in PermutedPairs :
        /\ KeyOf(p[1]) # KeyOf(p[2]) /\ {KeyOf(p[1]), KeyOf(p[2])} \subseteq DOMAIN cache
        /\ p[1].result # p[2].result
        /\ TypeEquiv(heap, p[1].result, p[2].result)

\* C8 amended: two such calls occupy distinct cache entries and return
\* equivalent types; the two are distinct objects when an override is
\* emitted, and both are T itself when none is.
C8_PermutedEquivalent ==
    \A p \in PermutedPairs :
        /\ KeyOf(p[1]) # KeyOf(p[2]) /\ {KeyOf(p[1]), KeyOf(p[2])} \subseteq DOMAIN cache
        /\ cache[KeyOf(p[1])] = p[1].result /\ cache[KeyOf(p[2])] = p[2].result
        /\ \/ p[1].result # p[2].result
           \/ p[1].result = p[1].cls /\ p[2].result = p[2].cls
        /\ (p[1].result = p[1].cls) <=> (p[2].result = p[2].cls)
        /\ TypeEquiv(heap, p[1].result, p[2].result)

C8_Witness ==
    \E p \in PermutedPairs :
        /\ p[1].result # p[1].cls
        /\ \E i \in DOMAIN p[1].fields : Len(p[1].fields[i]) > 1

----------------------------------------------------------------------------
(* C9: rewriting of nested model types.                                    *)

\* the selectors of a call that start with "field.", that prefix stripped; a
\* lone "*" stands for no selectors
SubSelectors(c, f) ==
    LET under == SelectSeq(c.fields, LAMBDA s : Len(s) > 1 /\ s[1] = f.name)
        stripped == [i \in DOMAIN under |-> Tail(under[i])]
    IN  IF stripped = << <<"*">> >> THEN <<>> ELSE stripped

\* a derivable model, directly or as a direct type argument of a
\* parametrized annotation with one of the given origins
NestsModel(ann, origins) ==
    \/ IsPartialModel(BaseHeap, ann)
    \/ /\ ann.kind = "generic" /\ ann.origin \in origins
       /\ \E i \in DOMAIN ann.args : IsPartialModel(BaseHeap, ann.args[i])

DerivedArg(a, c, f) ==
    IF IsPartialModel(BaseHeap, a)
    THEN ModelRef(DeriveNow(a.ref, SubSelectors(c, f), c.recursive))
    ELSE a

\* the annotation with each nested derivable model replaced by its derivation
Derived(ann, c, f) ==
    IF ann.kind = "generic"
    THEN Subscript(IF ann.origin = "UnionType" THEN "Union" ELSE ann.origin,
                   [i \in DOMAIN ann.args |-> DerivedArg(ann.args[i], c, f)])
    ELSE DerivedArg(ann, c, f)

Rewritten(c, f) ==
    /\ NestsModel(f.annotation, {"Union", "list", "tuple", "dict"})
    /\ c.recursive \/ Dotted(c, f)
    /\ Named(c, f) \/ Dotted(c, f)
    /\ ~(Named(c, f) /\ ~f.required)

----------------------------------------------------------------------------
(* C1: idempotence of the memoized derivation.                             *)

SameTriple(c1, c2) ==
    c1.cls = c2.cls /\ c1.fields = c2.fields /\ c1.recursive = c2.recursive

\* C1: any two sequential calls with an equal (base type, selector tuple,
\* recursive flag) triple return the identical type object, the body runs at
\* most once for a triple (in a program that has not ended in RecursionError),
\* and what a call returned stays the cache's entry for it.
C1_Idempotent ==
    /\ \A c1, c2 \in Completed : SameTriple(c1, c2) => c1.result = c2.result
    /\ Running => \A i, j \in DOMAIN bodyLog : i # j => bodyLog[i] # bodyLog[j]
    /\ \A c \in Completed : KeyOf(c) \in DOMAIN cache /\ cache[KeyOf(c)] = c.result


\* the same, over the calls that pass `recursive` by keyword, as as_partial does
C1_IdempotentByKeyword ==
    /\ \A c1, c2 \in {c \in Completed : c.kw # KwAbsent} :
         SameTriple(c1, c2) => c1.result = c2.result
    /\ \A c \in Completed : KeyOf(c) \in DOMAIN cache /\ cache[KeyOf(c)] = c.result

----------------------------------------------------------------------------
(* C7: concurrent callers.                                                 *)

Returned1(t) == pc[t] = "done" /\ got[t] # 0

\* C7: when several threads make the same call concurrently, the derivation
\* is computed at most once for the key, no store replaces another thread's
\* entry, and all callers receive the identical type object.
C7_Serialized ==
    /\ \A t1, t2 \in Threads : (Returned1(t1) /\ Returned1(t2)) => got[t1] = got[t2]
    /\ (\A t \in Threads : pc[t] = "done" => got[t] # 0) =>
         Cardinality({i \in DOMAIN bodyLog :
                        bodyLog[i] = Triple(target, selectors, flag)}) <= 1
    /\ \A t \in Threads : Returned1(t) => cache[TheKey] = got[t]

----------------------------------------------------------------------------
(* C10: derivation is total.                                               *)

\* the derivable models a class nests where create_partial_model looks for them
Nested(cls) ==
    UNION { {a.ref : a \in {x \in Range(IF GetOrigin(f.annotation) \in RewrittenOrigins
                                        THEN GetArgs(f.annotation) ELSE <<f.annotation>>) :
                             IsPartialModel(BaseHeap, x)}}
            : f \in Range(BaseHeap[cls].fields) }

RECURSIVE ReachableIn(_, _)
ReachableIn(S, n) ==
    IF n = 0 THEN S ELSE ReachableIn(S \cup UNION {Nested(c) : c \in S}, n - 1)

Below(cls) == ReachableIn(Nested(cls), Len(BaseHeap))

\* the model graph under cls holds a cycle
Cyclic(cls) == \E c \in Below(cls) \cup {cls} : c \in Below(c)

RECURSIVE NestingDepth(_)
NestingDepth(cls) ==
    IF Nested(cls) = {} THEN 0
    ELSE 1 + (CHOOSE m \in {NestingDepth(c) : c \in Nested(cls)} :
                \A k \in {NestingDepth(c) : c \in Nested(cls)} : k <= m)

LongestSelector ==
    IF selectors = <<>> THEN 1
    ELSE CHOOSE m \in {Len(selectors[i]) : i \in DOMAIN selectors} :
           \A i \in DOMAIN selectors : Len(selectors[i]) <= m

Total == ~Cyclic(target) \/ ~flag

\* C10: a derive call on an acyclic model graph, with either flag, and a call
\* with recursive=False on any model graph, cyclic ones included, eventually
\* returns a type; the nested-call depth is at most the schema's nesting depth
\* on an acyclic graph, and at most the longest selector path when recursive
\* is False.
C10_Terminates ==
    /\ [](~Cyclic(target) => Len(stack) <= NestingDepth(target) + 1)
    /\ [](~flag => Len(stack) <= LongestSelector)
    /\ [](Total => outcome # "RecursionError")
    /\ (outcome = "running" /\ Total) ~> (outcome = "returned")

C10_Witness ==
    /\ outcome = "returned" /\ Cyclic(target) /\ ~flag
    /\ Cardinality(memo) >= 3

====
